---- MODULE Spec2Model ----
(***************************************************************************)
(* Bedrock-bank detection of river-network-twin                            *)
(* (src/src/river/bedrock_banks.py): grouping of elevation samples into    *)
(* transect profiles, river-anchor location, and the outward scan of each  *)
(* side for the first sample that meets the height, slope and stability    *)
(* criteria.                                                               *)
(*                                                                         *)
(* Conventions                                                             *)
(*  - Python indices are kept 0-based in the operators' arguments and      *)
(*    results; a TLA+ sequence s holds Python's s[i] at s[i + 1].          *)
(*  - An attribute that may be NULL/None is a sequence of length <= 1:     *)
(*    << >> is None, << v >> is the value v.                               *)
(*  - Elevations, thresholds and spacings are integers (metres, degrees).  *)
(*  - The geometry engine is modelled for a straight centerline parallel   *)
(*    to the x axis: the geometry [kind |-> "Geom", y2 |-> c] is the line  *)
(*    y = c / 2, a point [x, y] is at planar distance |y - c / 2| from it  *)
(*    (kept doubled, |2y - c|) and is located at arc length x along it.    *)
(*    [kind |-> "None"] is rivers_layer without features (river_geom is    *)
(*    None), [kind |-> "Null"] a combined geometry that tests false.       *)
(***************************************************************************)
EXTENDS Integers, Sequences, FiniteSets, TLC

(***************************************************************************)
(* Program constants                                                       *)
(***************************************************************************)
NODATA == -9999
DefaultHeightThreshold == 3
DefaultSlopeThreshold == 8
DefaultPointSpacing == 15

(***************************************************************************)
(* Bounds of the model                                                     *)
(***************************************************************************)
MaxFeatures == 5
MaxLen == 5
MaxConsecutive == 2
MaxShuffled == 4

(***************************************************************************)
(* Values                                                                  *)
(***************************************************************************)
NoneValue == [kind |-> "None"]

Raise(e) == [kind |-> "raise", error |-> e]

Abs(n) == IF n < 0 THEN 0 - n ELSE n

\* [::-1] left out.
NotReversed(s) == s

Reverse(s) == [k \in 1..Len(s) |-> s[Len(s) + 1 - k]]

\* s[:n] and s[n:] of Python, n >= 0.
Take(s, n) == SubSeq(s, 1, IF n < Len(s) THEN n ELSE Len(s))

Drop(s, n) == SubSeq(s, n + 1, Len(s))

(***************************************************************************)
(* Geometry engine (QgsGeometry.distance, QgsGeometry.lineLocatePoint)     *)
(***************************************************************************)
distance(point, river_geom) == Abs(2 * point.y - river_geom.y2)

lineLocatePoint(river_geom, point) == point.x

(***************************************************************************)
(* math.degrees(math.atan(elevation_change / point_spacing)) compared      *)
(* with slope_threshold.  atan is increasing, so for point_spacing > 0     *)
(* the slope is below the threshold exactly when                           *)
(* elevation_change / point_spacing < tan(slope_threshold).  TanMicro is   *)
(* tan(degrees) * 10^6, truncated; no quotient of the model's integers     *)
(* lies within 10^-6 of a tabulated tangent without being equal to it.     *)
(***************************************************************************)
TanMicro(degrees) ==
    CASE degrees = 0 -> 0
      [] degrees = 8 -> 140540
      [] degrees = 15 -> 267949
      [] degrees = 45 -> 1000000

SlopeBelow(elevation_change, point_spacing, slope_threshold) ==
    elevation_change * 1000000 < TanMicro(slope_threshold) * point_spacing

(***************************************************************************)
(* _find_bedrock_on_side                                                   *)
(***************************************************************************)
\* if height_diff < height_threshold: continue -- with <= in place of <.
HeightBelowOrEqual(height_diff, height_threshold) ==
    height_diff <= height_threshold

\* if height_diff < height_threshold: continue
HeightBelow(height_diff, height_threshold) == height_diff < height_threshold

\* The stability loop reading points[i + j - 1] in place of points[i + j].
RECURSIVE is_stable_shifted(_, _, _, _, _, _)
is_stable_shifted(points, i, j, river_elevation, height_threshold, min_consecutive) ==
    IF j >= min_consecutive THEN TRUE
    ELSE IF i + j >= Len(points) THEN FALSE
    ELSE IF points[i + j].elevation - river_elevation < height_threshold
         THEN FALSE
    ELSE is_stable_shifted(points, i, j + 1, river_elevation,
                           height_threshold, min_consecutive)

\* for j in range(1, min_consecutive): ... ; the value of is_stable.
RECURSIVE is_stable(_, _, _, _, _, _)
is_stable(points, i, j, river_elevation, height_threshold, min_consecutive) ==
    IF j >= min_consecutive THEN TRUE
    ELSE IF i + j >= Len(points) THEN FALSE
    ELSE IF points[i + j + 1].elevation - river_elevation < height_threshold
         THEN FALSE
    ELSE is_stable(points, i, j + 1, river_elevation, height_threshold,
                   min_consecutive)

\* The scan with the slope criterion applied at index 0 as well, against
\* the anchor's elevation.
RECURSIVE ScanFromSlopeAtZero(_, _, _, _, _)
ScanFromSlopeAtZero(points, i, river_elevation, cfg, tag) ==
    IF i >= Len(points) - cfg.min_consecutive + 1 THEN NoneValue
    ELSE IF i >= Len(points) THEN Raise("IndexError")
    ELSE
      LET current == points[i + 1]
          height_diff == current.elevation - river_elevation
          prev_elevation == IF i > 0 THEN points[i].elevation
                            ELSE river_elevation
          next == ScanFromSlopeAtZero(points, i + 1, river_elevation, cfg, tag)
      IN  IF HeightBelow(height_diff, cfg.height_threshold) THEN next
          ELSE IF cfg.point_spacing = 0 THEN Raise("ZeroDivisionError")
          ELSE IF SlopeBelow(current.elevation - prev_elevation,
                             cfg.point_spacing, cfg.slope_threshold)
               THEN next
          ELSE IF is_stable(points, i, 1, river_elevation,
                            cfg.height_threshold, cfg.min_consecutive)
               THEN [kind |-> "bank",
                     point |-> current.point,
                     elevation |-> current.elevation,
                     height_diff |-> height_diff,
                     side |-> tag.side,
                     profile_id |-> tag.profile_id,
                     distance_along |-> tag.river_distance]
          ELSE next

\* for i in range(len(points) - min_consecutive + 1): ... from index i on.
RECURSIVE ScanFrom(_, _, _, _, _)
ScanFrom(points, i, river_elevation, cfg, tag) ==
    IF i >= Len(points) - cfg.min_consecutive + 1 THEN NoneValue
    ELSE IF i >= Len(points) THEN Raise("IndexError")
    ELSE
      LET current == points[i + 1]
          height_diff == current.elevation - river_elevation
          next == ScanFrom(points, i + 1, river_elevation, cfg, tag)
      IN  IF HeightBelow(height_diff, cfg.height_threshold) THEN next
          ELSE IF i > 0 /\ cfg.point_spacing = 0
               THEN Raise("ZeroDivisionError")
          ELSE IF i > 0 /\ SlopeBelow(current.elevation - points[i].elevation,
                                      cfg.point_spacing, cfg.slope_threshold)
               THEN next
          ELSE IF is_stable(points, i, 1, river_elevation,
                            cfg.height_threshold, cfg.min_consecutive)
               THEN [kind |-> "bank",
                     point |-> current.point,
                     elevation |-> current.elevation,
                     height_diff |-> height_diff,
                     side |-> tag.side,
                     profile_id |-> tag.profile_id,
                     distance_along |-> tag.river_distance]
          ELSE next

_find_bedrock_on_side(points, river_elevation, cfg, side, profile_id, river_distance) ==
    ScanFrom(points, 0, river_elevation, cfg,
             [side |-> side, profile_id |-> profile_id,
              river_distance |-> river_distance])

(***************************************************************************)
(* _analyze_transects_for_bedrock: grouping                                *)
(***************************************************************************)
\* TR_ID, then TR_SEGMENT, then fid, then feature.id().
ProfileId(feature) ==
    IF feature.TR_ID # << >> THEN feature.TR_ID[1]
    ELSE IF feature.TR_SEGMENT # << >> THEN feature.TR_SEGMENT[1]
    ELSE IF feature.fid # << >> THEN feature.fid[1]
    ELSE feature.id

IsNodata(elevation) == elevation = << >> \/ elevation[1] = NODATA

\* Position of profile_id in the dict (1-based), 0 when absent.
KeyIndex(profiles, profile_id) ==
    IF \E k \in 1..Len(profiles) : profiles[k].profile_id = profile_id
    THEN CHOOSE k \in 1..Len(profiles) : profiles[k].profile_id = profile_id
    ELSE 0

\* The grouping step without the NODATA test: every sample is appended.
GroupStepKeepNodata(profiles, feature) ==
    LET profile_id == ProfileId(feature)
        withKey == IF KeyIndex(profiles, profile_id) = 0
                   THEN Append(profiles, [profile_id |-> profile_id,
                                          points |-> << >>])
                   ELSE profiles
        k == KeyIndex(withKey, profile_id)
    IN  [withKey EXCEPT ![k].points =
            Append(@, [point |-> feature.point,
                       elevation |-> IF feature.elev_1 = << >> THEN 0
                                     ELSE feature.elev_1[1],
                       distance |-> feature.distance,
                       profile_id |-> profile_id])]

\* One iteration of the loop over points_layer.getFeatures().
GroupStep(profiles, feature) ==
    LET profile_id == ProfileId(feature)
        withKey == IF KeyIndex(profiles, profile_id) = 0
                   THEN Append(profiles, [profile_id |-> profile_id,
                                          points |-> << >>])
                   ELSE profiles
        k == KeyIndex(withKey, profile_id)
    IN  IF IsNodata(feature.elev_1) THEN withKey
        ELSE [withKey EXCEPT ![k].points =
                 Append(@, [point |-> feature.point,
                            elevation |-> feature.elev_1[1],
                            distance |-> feature.distance,
                            profile_id |-> profile_id])]

(***************************************************************************)
(* _analyze_transects_for_bedrock: one profile                             *)
(***************************************************************************)
\* list.sort(key=lambda p: p["distance"]): stable, ascending.
RECURSIVE InsertSorted(_, _)
InsertSorted(sorted, p) ==
    IF sorted = << >> THEN << p >>
    ELSE IF sorted[Len(sorted)].distance <= p.distance
         THEN Append(sorted, p)
    ELSE Append(InsertSorted(SubSeq(sorted, 1, Len(sorted) - 1), p),
                sorted[Len(sorted)])

\* The profile left in arrival order.
NotSorted(points) == points

RECURSIVE SortByDistance(_)
SortByDistance(points) ==
    IF points = << >> THEN << >>
    ELSE InsertSorted(SortByDistance(SubSeq(points, 1, Len(points) - 1)),
                      points[Len(points)])

\* The nearest-sample loop with dist <= min_dist in place of dist < min_dist.
RECURSIVE NearestFromLast(_, _, _, _, _)
NearestFromLast(profile_points, river_geom, idx, min_dist, river_idx) ==
    IF idx >= Len(profile_points) THEN river_idx
    ELSE LET dist == distance(profile_points[idx + 1].point, river_geom)
         IN  IF min_dist = << >> \/ dist <= min_dist[1]
             THEN NearestFromLast(profile_points, river_geom, idx + 1,
                                  << dist >>, idx)
             ELSE NearestFromLast(profile_points, river_geom, idx + 1,
                                  min_dist, river_idx)

\* for idx, p in enumerate(profile_points): ... from idx on; min_dist is
\* << >> for float('inf').
RECURSIVE NearestFrom(_, _, _, _, _)
NearestFrom(profile_points, river_geom, idx, min_dist, river_idx) ==
    IF idx >= Len(profile_points) THEN river_idx
    ELSE LET dist == distance(profile_points[idx + 1].point, river_geom)
         IN  IF min_dist = << >> \/ dist < min_dist[1]
             THEN NearestFrom(profile_points, river_geom, idx + 1,
                              << dist >>, idx)
             ELSE NearestFrom(profile_points, river_geom, idx + 1,
                              min_dist, river_idx)

\* if river_geom: ... else: river_idx = len(profile_points) // 2
RiverIdx(profile_points, river_geom) ==
    IF river_geom.kind = "Geom"
    THEN NearestFrom(profile_points, river_geom, 0, << >>,
                     Len(profile_points) \div 2)
    ELSE Len(profile_points) \div 2

\* profile_points[:river_idx][::-1] and profile_points[river_idx + 1:]
LeftSide(profile_points, river_idx) == Reverse(Take(profile_points, river_idx))

\* The right side without the slice: the whole profile is scanned.
RightSideWhole(profile_points, river_idx) == profile_points

RightSide(profile_points, river_idx) == Drop(profile_points, river_idx + 1)

\* The body of the loop over profiles.items() for one profile: what it
\* leaves in profile_points, its locals, what it appends, and whether it
\* raises.
AnalyzeStep(profile, river_geom, cfg) ==
    IF Len(profile.points) < cfg.min_consecutive + 1
    THEN [skipped |-> TRUE, located |-> FALSE, raised |-> << >>,
          profile_points |-> profile.points, appended |-> << >>]
    ELSE
      LET profile_points == SortByDistance(profile.points)
          river_idx == RiverIdx(profile_points, river_geom)
      IN  IF river_idx >= Len(profile_points)
          THEN [skipped |-> FALSE, located |-> FALSE,
                raised |-> << "IndexError" >>,
                profile_points |-> profile_points, appended |-> << >>]
          ELSE
            LET river_point == profile_points[river_idx + 1]
                river_elevation == river_point.elevation
                river_distance ==
                    IF river_geom.kind = "Geom"
                    THEN lineLocatePoint(river_geom, river_point.point)
                    ELSE 0
                left_bedrock ==
                    _find_bedrock_on_side(
                        LeftSide(profile_points, river_idx),
                        river_elevation, cfg, "left", profile.profile_id,
                        river_distance)
                right_bedrock ==
                    _find_bedrock_on_side(
                        RightSide(profile_points, river_idx),
                        river_elevation, cfg, "right", profile.profile_id,
                        river_distance)
                raised == IF left_bedrock.kind = "raise"
                          THEN << left_bedrock.error >>
                          ELSE IF right_bedrock.kind = "raise"
                          THEN << right_bedrock.error >>
                          ELSE << >>
                appendLeft == IF left_bedrock.kind = "bank"
                              THEN << left_bedrock >> ELSE << >>
                appendRight == IF left_bedrock.kind # "raise"
                                  /\ right_bedrock.kind = "bank"
                               THEN << right_bedrock >> ELSE << >>
            IN  [skipped |-> FALSE, located |-> TRUE, raised |-> raised,
                 profile_points |-> profile_points,
                 appended |-> appendLeft \o appendRight,
                 profile_id |-> profile.profile_id,
                 river_idx |-> river_idx,
                 river_elevation |-> river_elevation,
                 river_distance |-> river_distance,
                 left_bedrock |-> left_bedrock,
                 right_bedrock |-> IF left_bedrock.kind = "raise"
                                   THEN NoneValue ELSE right_bedrock]

(***************************************************************************)
(* _analyze_transects_for_bedrock as a function of its inputs              *)
(***************************************************************************)
RECURSIVE GroupAll(_, _)
GroupAll(features, profiles) ==
    IF features = << >> THEN profiles
    ELSE GroupAll(Tail(features), GroupStep(profiles, Head(features)))

RECURSIVE AnalyzeAll(_, _, _, _, _)
AnalyzeAll(profiles, k, river_geom, cfg, bedrock) ==
    IF k > Len(profiles) THEN [kind |-> "return", bedrock_points |-> bedrock]
    ELSE LET r == AnalyzeStep(profiles[k], river_geom, cfg)
         IN  IF r.raised # << >> THEN Raise(r.raised[1])
             ELSE AnalyzeAll(profiles, k + 1, river_geom, cfg,
                             bedrock \o r.appended)

_analyze_transects_for_bedrock(features, river_geom, cfg) ==
    IF river_geom.kind = "None"
    THEN [kind |-> "return", bedrock_points |-> << >>]
    ELSE AnalyzeAll(GroupAll(features, << >>), 1, river_geom, cfg, << >>)

(***************************************************************************)
(* Inputs                                                                  *)
(***************************************************************************)
NoRiver == [kind |-> "None"]

NullRiver == [kind |-> "Null"]

Geom(c) == [kind |-> "Geom", y2 |-> c]

\* The sample of transect tr at offset d along it.
Feature(tr, d, elev) ==
    [TR_ID |-> << tr >>, TR_SEGMENT |-> << >>, fid |-> << >>, id |-> 0,
     point |-> [x |-> tr, y |-> d], distance |-> d, elev_1 |-> elev]

CountOf(features, tr) ==
    Cardinality({k \in 1..Len(features) : features[k].TR_ID = << tr >>})

\* Two transects, sampled in any interleaving, each from offset 1 upward.
TransectIds == {1, 2}

SampledFeatures(features) ==
    IF Len(features) >= MaxFeatures THEN {}
    ELSE { Feature(tr, CountOf(features, tr) + 1, << e >>) :
             tr \in TransectIds, e \in {NODATA, 100, 103} }

\* The same, with elevations that may be missing.
SparseFeatures(features) ==
    IF Len(features) >= MaxFeatures THEN {}
    ELSE { Feature(tr, CountOf(features, tr) + 1, e) :
             tr \in TransectIds, e \in {<< >>, << NODATA >>, << 100 >>, << 103 >>} }

\* One transect of up to MaxLen samples, sampled from offset 1 upward or
\* from offset MaxLen downward.
ProfileFeatures(features) ==
    IF Len(features) >= MaxLen THEN {}
    ELSE { Feature(1, d, << e >>) :
             d \in (IF features = << >> THEN {1, MaxLen}
                    ELSE IF features[1].distance = 1 THEN {Len(features) + 1}
                    ELSE {MaxLen - Len(features)}),
             e \in {100, 103, 106} }

\* Two transects of three sample positions each, the samples arriving in
\* any order, no position twice.
ShuffledFeatures(features) ==
    IF Len(features) >= MaxShuffled THEN {}
    ELSE { f \in { Feature(tr, d, << e >>) :
                     tr \in TransectIds, d \in {1, 2, 3}, e \in {100, 103} } :
             \A k \in 1..Len(features) :
                 features[k].TR_ID # f.TR_ID
                 \/ features[k].distance # f.distance }

ShuffledConfigs ==
    [height_threshold : {DefaultHeightThreshold},
     slope_threshold : {DefaultSlopeThreshold},
     min_consecutive : {1, 2},
     point_spacing : {DefaultPointSpacing}]

ShuffledRivers == {NullRiver, Geom(3)}

Configs ==
    [height_threshold : {DefaultHeightThreshold},
     slope_threshold : {DefaultSlopeThreshold},
     min_consecutive : 1..MaxConsecutive,
     point_spacing : {DefaultPointSpacing}]

Rivers == {NoRiver, NullRiver, Geom(4)}

ProfileConfigs ==
    [height_threshold : {DefaultHeightThreshold},
     slope_threshold : {DefaultSlopeThreshold},
     min_consecutive : 1..MaxConsecutive,
     point_spacing : {DefaultPointSpacing, 30}]

ProfileRivers == {NoRiver, NullRiver} \cup {Geom(c) : c \in 2..(2 * MaxLen)}

AnyConfigs ==
    [height_threshold : {DefaultHeightThreshold},
     slope_threshold : {DefaultSlopeThreshold},
     min_consecutive : 0..(MaxConsecutive + 1),
     point_spacing : {0, DefaultPointSpacing}]

(***************************************************************************)
(* State machine                                                           *)
(***************************************************************************)
VARIABLES
    pc,              \* position in detect_bedrock_banks
    river_geom,      \* the combined geometry of rivers_layer
    cfg,             \* the thresholds
    layer,           \* the features of points_with_z
    profiles,        \* dict profile_id -> list of samples, in insertion order
    pi,              \* position of the loop over profiles.items()
    analysed,        \* locals of the loop body, per profile located
    bedrock_points,  \* the result list
    err              \* the exception that ended the call, if any

vars == << pc, river_geom, cfg, layer, profiles, pi, analysed,
           bedrock_points, err >>

Start(rivers, configs) ==
    /\ pc = "sample"
    /\ river_geom \in rivers
    /\ cfg \in configs
    /\ layer = << >>
    /\ profiles = << >>
    /\ pi = 1
    /\ analysed = << >>
    /\ bedrock_points = << >>
    /\ err = << >>

\* Steps 1-3 of detect_bedrock_banks: one more point with its elevation.
SamplePoint(feature) ==
    /\ pc = "sample"
    /\ layer' = Append(layer, feature)
    /\ UNCHANGED << pc, river_geom, cfg, profiles, pi, analysed,
                    bedrock_points, err >>

\* Lines 178-187: the river geometry; without a river feature the call
\* returns an empty list.
CombineRiver ==
    /\ pc = "sample"
    /\ pc' = IF river_geom.kind = "None" THEN "done" ELSE "group"
    /\ UNCHANGED << river_geom, cfg, layer, profiles, pi, analysed,
                    bedrock_points, err >>

\* Lines 190-218: the loop over the features of the layer.
GroupFeatures ==
    /\ pc = "group"
    /\ profiles' = GroupAll(layer, << >>)
    /\ pc' = "analyze"
    /\ UNCHANGED << river_geom, cfg, layer, pi, analysed, bedrock_points,
                    err >>

\* Lines 221-280: the loop body for the next profile.
AnalyzeProfile ==
    /\ pc = "analyze"
    /\ pi <= Len(profiles)
    /\ LET r == AnalyzeStep(profiles[pi], river_geom, cfg)
       IN  /\ profiles' = [profiles EXCEPT ![pi].points = r.profile_points]
           /\ analysed' = IF r.located THEN Append(analysed, r)
                          ELSE analysed
           /\ bedrock_points' = bedrock_points \o r.appended
           /\ err' = r.raised
           /\ pc' = IF r.raised # << >> THEN "raised" ELSE "analyze"
    /\ pi' = pi + 1
    /\ UNCHANGED << river_geom, cfg, layer >>

\* Line 282.
Return ==
    /\ pc = "analyze"
    /\ pi > Len(profiles)
    /\ pc' = "done"
    /\ UNCHANGED << river_geom, cfg, layer, profiles, pi, analysed,
                    bedrock_points, err >>

\* Two transects, default thresholds.
Init == Start(Rivers, Configs)

Next ==
    \/ \E feature \in SampledFeatures(layer) : SamplePoint(feature)
    \/ CombineRiver
    \/ GroupFeatures
    \/ AnalyzeProfile
    \/ Return

Spec == Init /\ [][Next]_vars

\* Two transects with missing elevations, a river.
InitSparse == Start({Geom(4)}, Configs)

NextSparse ==
    \/ \E feature \in SparseFeatures(layer) : SamplePoint(feature)
    \/ CombineRiver
    \/ GroupFeatures
    \/ AnalyzeProfile
    \/ Return

SpecSparse == InitSparse /\ [][NextSparse]_vars

\* One transect, three elevation levels, every position of the river.
InitProfile == Start(ProfileRivers, ProfileConfigs)

NextProfile ==
    \/ \E feature \in ProfileFeatures(layer) : SamplePoint(feature)
    \/ CombineRiver
    \/ GroupFeatures
    \/ AnalyzeProfile
    \/ Return

SpecProfile == InitProfile /\ [][NextProfile]_vars

\* Two transects, the samples in any order.
InitShuffled == Start(ShuffledRivers, ShuffledConfigs)

NextShuffled ==
    \/ \E feature \in ShuffledFeatures(layer) : SamplePoint(feature)
    \/ CombineRiver
    \/ GroupFeatures
    \/ AnalyzeProfile
    \/ Return

SpecShuffled == InitShuffled /\ [][NextShuffled]_vars

\* One transect, degenerate thresholds.
InitAny == Start({NullRiver, Geom(4)}, AnyConfigs)

SpecAny == InitAny /\ [][NextProfile]_vars

(***************************************************************************)
(* The criteria of the bank classifier, stated on a side sequence          *)
(***************************************************************************)
Sides == {"left", "right"}

\* The anchor of an analysed profile and the samples of one side, nearest
\* to the anchor first.
AnchorOf(a) == a.profile_points[a.river_idx + 1]

SideOf(a, side) ==
    IF side = "left"
    THEN [k \in 1..a.river_idx |-> a.profile_points[a.river_idx + 1 - k]]
    ELSE [k \in 1..(Len(a.profile_points) - a.river_idx - 1) |->
             a.profile_points[a.river_idx + 1 + k]]

ResultOf(a, side) ==
    IF side = "left" THEN a.left_bedrock ELSE a.right_bedrock

MeetsHeight(pts, i, anchor) ==
    pts[i + 1].elevation - anchor.elevation >= cfg.height_threshold

MeetsSlope(pts, i) ==
    i = 0 \/ (pts[i + 1].elevation - pts[i].elevation) * 1000000
                >= TanMicro(cfg.slope_threshold) * cfg.point_spacing

MeetsStability(pts, i, anchor) ==
    \A j \in 1..(cfg.min_consecutive - 1) :
        i + j <= Len(pts) - 1 /\ MeetsHeight(pts, i + j, anchor)

Qualifying(pts, anchor) ==
    { i \in 0..(Len(pts) - 1) :
        MeetsHeight(pts, i, anchor) /\ MeetsSlope(pts, i)
        /\ MeetsStability(pts, i, anchor) }

Least(S) == CHOOSE i \in S : \A j \in S : i <= j

\* The scan index of a returned bank point on its side, -1 if it is none of
\* the side's samples.
IndexIn(pts, bank) ==
    IF \E i \in 0..(Len(pts) - 1) : pts[i + 1].point = bank.point
    THEN CHOOSE i \in 0..(Len(pts) - 1) : pts[i + 1].point = bank.point
    ELSE -1

IsBankAt(result, pts, i, anchor) ==
    /\ result.kind = "bank"
    /\ result.point = pts[i + 1].point
    /\ result.elevation = pts[i + 1].elevation
    /\ result.height_diff = pts[i + 1].elevation - anchor.elevation

(***************************************************************************)
(* C1: on every side, _find_bedrock_on_side returns the sample at the      *)
(* least index that meets the height criterion, the slope criterion (for   *)
(* an index above 0) and the stability criterion, and returns None exactly *)
(* when no index meets them.                                               *)
(***************************************************************************)
C1_FirstQualifyingIndex ==
    \A n \in 1..Len(analysed) : \A side \in Sides :
        LET a == analysed[n]
            pts == SideOf(a, side)
            Q == Qualifying(pts, AnchorOf(a))
        IN  IF Q = {} THEN ResultOf(a, side) = NoneValue
            ELSE IsBankAt(ResultOf(a, side), pts, Least(Q), AnchorOf(a))

\* A bank found at an index above 0 and before a later sample that
\* qualifies as well.
C1_Witness ==
    \E n \in 1..Len(analysed) : \E side \in Sides :
        LET a == analysed[n]
            pts == SideOf(a, side)
            Q == Qualifying(pts, AnchorOf(a))
        IN  /\ Q # {}
            /\ Least(Q) >= 1
            /\ \E i \in Q : i > Least(Q)
            /\ ResultOf(a, side).kind = "bank"

(***************************************************************************)
(* C2: with a river centerline, the anchor of every analysed profile is a  *)
(* sample at minimal planar distance from the centerline, and among the    *)
(* samples at that distance the one with the smallest index in the profile *)
(* sorted by offset.                                                       *)
(***************************************************************************)
SortedByOffset(points) ==
    \A k \in 1..(Len(points) - 1) : points[k].distance <= points[k + 1].distance

C2_AnchorIsFirstNearest ==
    river_geom.kind = "Geom" =>
        \A n \in 1..Len(analysed) :
            LET a == analysed[n]
                d(k) == distance(a.profile_points[k + 1].point, river_geom)
            IN  /\ SortedByOffset(a.profile_points)
                /\ a.river_idx \in 0..(Len(a.profile_points) - 1)
                /\ \A k \in 0..(Len(a.profile_points) - 1) :
                       /\ d(a.river_idx) <= d(k)
                       /\ k < a.river_idx => d(a.river_idx) < d(k)

\* A profile that arrived in descending offset order, with two samples at
\* the minimal distance, the anchor being neither the first sample nor the
\* structural midpoint.
C2_Witness ==
    /\ river_geom.kind = "Geom"
    /\ Len(layer) >= 2
    /\ layer[1].distance > layer[2].distance
    /\ \E n \in 1..Len(analysed) :
          LET a == analysed[n]
              d(k) == distance(a.profile_points[k + 1].point, river_geom)
          IN  /\ a.river_idx > 0
              /\ a.river_idx # Len(a.profile_points) \div 2
              /\ \E k \in 0..(Len(a.profile_points) - 1) :
                    k > a.river_idx /\ d(k) = d(a.river_idx)

(***************************************************************************)
(* The profiles of the layer, stated on the input: the samples of one      *)
(* transect that carry an elevation, in ascending order of offset          *)
(***************************************************************************)
ValidOf(tr) ==
    { k \in 1..Len(layer) :
        /\ layer[k].TR_ID = << tr >>
        /\ layer[k].elev_1 # << >>
        /\ layer[k].elev_1[1] # NODATA }

RankOf(tr, k) ==
    Cardinality({ m \in ValidOf(tr) : layer[m].distance < layer[k].distance })

ProfileOf(tr) ==
    [r \in 1..Cardinality(ValidOf(tr)) |->
        LET k == CHOOSE k \in ValidOf(tr) : RankOf(tr, k) = r - 1
        IN  [point |-> layer[k].point, elevation |-> layer[k].elev_1[1],
             distance |-> layer[k].distance, profile_id |-> tr]]

\* The profile of transect tr anchored at its structural midpoint.
MidpointAnchored(tr) ==
    [profile_points |-> ProfileOf(tr), river_idx |-> Len(ProfileOf(tr)) \div 2]

BanksOf(tr, side) ==
    { m \in 1..Len(bedrock_points) :
        bedrock_points[m].profile_id = tr /\ bedrock_points[m].side = side }

(***************************************************************************)
(* C3: without river centerline geometry the analysis neither fails nor    *)
(* stops: every analyzable profile is anchored at index floor(length / 2), *)
(* its along-river distance is 0, and each side that has a qualifying      *)
(* sample yields its bank point.                                           *)
(***************************************************************************)
FallbackBanksProduced ==
    \A tr \in TransectIds : \A side \in Sides :
        LET a == MidpointAnchored(tr)
            pts == SideOf(a, side)
            Q == Qualifying(pts, AnchorOf(a))
        IN  (Len(a.profile_points) >= cfg.min_consecutive + 1 /\ Q # {}) =>
                \E m \in BanksOf(tr, side) :
                    /\ bedrock_points[m].distance_along = 0
                    /\ IsBankAt(bedrock_points[m], pts, Least(Q), AnchorOf(a))

C3_FallbackWithoutCenterline ==
    river_geom.kind # "Geom" =>
        /\ pc # "raised"
        /\ pc = "done" => FallbackBanksProduced

\* The same for a river geometry that exists and tests false.
C3_FallbackWithNullGeometry ==
    river_geom.kind = "Null" =>
        /\ pc # "raised"
        /\ pc = "done" => FallbackBanksProduced

(***************************************************************************)
(* C4: a profile with fewer than min_consecutive + 1 samples, NODATA       *)
(* samples not counted, contributes no bank point on either side, and the  *)
(* analysis does not raise.                                                *)
(***************************************************************************)
C4_ShortProfilesContributeNothing ==
    /\ pc # "raised"
    /\ \A tr \in TransectIds :
          Cardinality(ValidOf(tr)) < cfg.min_consecutive + 1 =>
              \A m \in 1..Len(bedrock_points) :
                  bedrock_points[m].profile_id # tr

\* A finished run in which a transect has enough samples only if its
\* NODATA samples are counted, while another transect contributed a bank.
C4_Witness ==
    /\ pc = "done"
    /\ bedrock_points # << >>
    /\ \E tr \in TransectIds :
          /\ Cardinality(ValidOf(tr)) >= 1
          /\ Cardinality(ValidOf(tr)) < cfg.min_consecutive + 1
          /\ CountOf(layer, tr) >= cfg.min_consecutive + 1

(***************************************************************************)
(* C9: in the result each profile id carries at most one left and at most  *)
(* one right bank point; a bank point is never the anchor; a left bank     *)
(* point lies at a sorted index below the anchor index and a right one at  *)
(* a sorted index above it.                                                *)
(***************************************************************************)
C9_OneBankPerSideOutsideAnchor ==
    /\ \A tr \in TransectIds : \A side \in Sides :
          Cardinality(BanksOf(tr, side)) <= 1
    /\ \A m \in 1..Len(bedrock_points) :
          LET b == bedrock_points[m]
          IN  /\ b.side \in Sides
              /\ b.profile_id \in TransectIds
              /\ \E n \in 1..Len(analysed) :
                    LET a == analysed[n]
                        idx == IndexIn(a.profile_points, b)
                    IN  /\ a.profile_id = b.profile_id
                        /\ idx # -1
                        /\ b.point # AnchorOf(a).point
                        /\ b.side = "left" => idx < a.river_idx
                        /\ b.side = "right" => idx > a.river_idx

\* A finished run with a bank point on both sides of one profile and a
\* bank point of another profile.
C9_Witness ==
    /\ pc = "done"
    /\ \E tr \in TransectIds :
          /\ BanksOf(tr, "left") # {}
          /\ BanksOf(tr, "right") # {}
          /\ \E other \in TransectIds \ {tr} :
                BanksOf(other, "left") \cup BanksOf(other, "right") # {}

(***************************************************************************)
(* C5: a returned bank point at scan index i has all of the                *)
(* min_consecutive - 1 samples after it on its side, each at least         *)
(* height_threshold above the anchor; a side on which the stability window *)
(* of every candidate runs past the end or dips below the threshold yields *)
(* no bank.                                                                *)
(***************************************************************************)
C5_StabilityWindowRequired ==
    \A n \in 1..Len(analysed) : \A side \in Sides :
        LET a == analysed[n]
            pts == SideOf(a, side)
            r == ResultOf(a, side)
        IN  /\ r.kind = "bank" =>
                  /\ IndexIn(pts, r) # -1
                  /\ MeetsHeight(pts, IndexIn(pts, r), AnchorOf(a))
                  /\ MeetsStability(pts, IndexIn(pts, r), AnchorOf(a))
            /\ (\A i \in 0..(Len(pts) - 1) :
                   MeetsHeight(pts, i, AnchorOf(a))
                   => ~MeetsStability(pts, i, AnchorOf(a))) => r = NoneValue

\* A side with no bank although one candidate meets height and slope with
\* a window that dips below the threshold and another one meets them with
\* a window that runs past the end of the side.
C5_Witness ==
    \E n \in 1..Len(analysed) : \E side \in Sides :
        LET a == analysed[n]
            pts == SideOf(a, side)
            last == Len(pts) - 1
            Candidate(i) == MeetsHeight(pts, i, AnchorOf(a)) /\ MeetsSlope(pts, i)
        IN  /\ cfg.min_consecutive >= 2
            /\ ResultOf(a, side) = NoneValue
            /\ last >= 2
            /\ Candidate(last)
            /\ \E i \in 0..(last - 1) :
                  Candidate(i) /\ ~MeetsHeight(pts, i + 1, AnchorOf(a))

(***************************************************************************)
(* C6: on a profile whose elevations are symmetric about the anchor, with  *)
(* equally many samples on both sides, the two sides either both find no   *)
(* bank or find banks at the same number of steps from the anchor with the *)
(* same elevation and height above the anchor, at mirrored positions.      *)
(***************************************************************************)
Symmetric(a) ==
    /\ Len(a.profile_points) = 2 * a.river_idx + 1
    /\ \A k \in 1..a.river_idx :
          /\ a.profile_points[a.river_idx + 1 - k].elevation
                = a.profile_points[a.river_idx + 1 + k].elevation
          /\ AnchorOf(a).point.y - a.profile_points[a.river_idx + 1 - k].point.y
                = a.profile_points[a.river_idx + 1 + k].point.y
                     - AnchorOf(a).point.y

C6_SymmetricProfileMirrors ==
    \A n \in 1..Len(analysed) :
        LET a == analysed[n]
            l == a.left_bedrock
            r == a.right_bedrock
        IN  Symmetric(a) =>
              /\ l.kind = r.kind
              /\ l.kind = "bank" =>
                    /\ l.side = "left" /\ r.side = "right"
                    /\ IndexIn(SideOf(a, "left"), l) # -1
                    /\ IndexIn(SideOf(a, "left"), l)
                          = IndexIn(SideOf(a, "right"), r)
                    /\ l.height_diff = r.height_diff
                    /\ l.elevation = r.elevation
                    /\ l.profile_id = r.profile_id
                    /\ l.distance_along = r.distance_along
                    /\ AnchorOf(a).point.y - l.point.y
                          = r.point.y - AnchorOf(a).point.y

\* A symmetric profile with a bank on both sides, not next to the anchor,
\* whose side samples differ in elevation.
C6_Witness ==
    \E n \in 1..Len(analysed) :
        LET a == analysed[n]
        IN  /\ Symmetric(a)
            /\ a.left_bedrock.kind = "bank"
            /\ a.right_bedrock.kind = "bank"
            /\ IndexIn(SideOf(a, "left"), a.left_bedrock) >= 1
            /\ a.profile_points[1].elevation # a.profile_points[2].elevation

(***************************************************************************)
(* C10: the slope criterion is applied between a candidate and its         *)
(* predecessor in the scan only, and not at scan index 0: a sample at      *)
(* index 0 that meets height and stability is returned whatever its rise   *)
(* from the anchor, and a sample at an index above 0 whose slope from its  *)
(* predecessor is below slope_threshold is never returned.                 *)
(***************************************************************************)
C10_SlopeSkippedAtIndexZero ==
    \A n \in 1..Len(analysed) : \A side \in Sides :
        LET a == analysed[n]
            pts == SideOf(a, side)
            r == ResultOf(a, side)
        IN  /\ (Len(pts) >= 1 /\ MeetsHeight(pts, 0, AnchorOf(a))
                              /\ MeetsStability(pts, 0, AnchorOf(a))) =>
                   IsBankAt(r, pts, 0, AnchorOf(a))
            /\ \A i \in 1..(Len(pts) - 1) :
                   (pts[i + 1].elevation - pts[i].elevation) * 1000000
                       < TanMicro(cfg.slope_threshold) * cfg.point_spacing
                   => ~IsBankAt(r, pts, i, AnchorOf(a))

\* A bank returned at index 0 whose rise from the anchor is below the slope
\* threshold, on a profile whose other side rejects a sample that meets
\* height and stability because of its slope.
C10_Witness ==
    \E n \in 1..Len(analysed) : \E side \in Sides :
        LET a == analysed[n]
            pts == SideOf(a, side)
            other == SideOf(a, CHOOSE o \in Sides : o # side)
        IN  /\ Len(pts) >= 1
            /\ IsBankAt(ResultOf(a, side), pts, 0, AnchorOf(a))
            /\ (pts[1].elevation - AnchorOf(a).elevation) * 1000000
                  < TanMicro(cfg.slope_threshold) * cfg.point_spacing
            /\ \E i \in 1..(Len(other) - 1) :
                  /\ MeetsHeight(other, i, AnchorOf(a))
                  /\ MeetsStability(other, i, AnchorOf(a))
                  /\ ~MeetsSlope(other, i)
                  /\ \A k \in 0..(i - 1) : ~MeetsHeight(other, k, AnchorOf(a))

(***************************************************************************)
(* C7: a sample whose elevation is NODATA or missing takes no part in the  *)
(* analysis: no profile that is analysed holds it, no bank point is it,    *)
(* and the result is the one the same layer without the sample gives.      *)
(***************************************************************************)
HasElevation(feature) ==
    feature.elev_1 # << >> /\ feature.elev_1[1] # NODATA

WithoutNodata(features) == SelectSeq(features, HasElevation)

NodataNeverAnalysed ==
    /\ \A n \in 1..Len(analysed) : \A k \in 1..Len(analysed[n].profile_points) :
          /\ analysed[n].profile_points[k].elevation # NODATA
          /\ \E m \in ValidOf(analysed[n].profile_id) :
                layer[m].point = analysed[n].profile_points[k].point
    /\ \A m \in 1..Len(bedrock_points) : bedrock_points[m].elevation # NODATA

C7_NodataSamplesIgnored ==
    /\ NodataNeverAnalysed
    /\ pc = "done" =>
          bedrock_points =
              _analyze_transects_for_bedrock(WithoutNodata(layer), river_geom,
                                             cfg).bedrock_points

\* The same with the result taken as a set of bank points.
Range(s) == { s[k] : k \in 1..Len(s) }

C7_NodataSamplesIgnoredUpToOrder ==
    /\ NodataNeverAnalysed
    /\ pc = "done" =>
          /\ Range(bedrock_points) =
                Range(_analyze_transects_for_bedrock(
                          WithoutNodata(layer), river_geom, cfg).bedrock_points)
          /\ Len(bedrock_points) = Cardinality(Range(bedrock_points))

(***************************************************************************)
(* C8: the classification never raises, whatever the samples and the       *)
(* configuration, min_consecutive of 0 and a point spacing of 0 included.  *)
(***************************************************************************)
C8_NeverRaises == pc # "raised"

(***************************************************************************)
(* C11: with pairwise distinct offsets within each transect, the set of    *)
(* bank points of a run does not depend on the order in which the samples  *)
(* arrive, and the bank points of one profile are those the profile's      *)
(* samples give on their own, whatever samples of other profiles the       *)
(* layer holds.                                                            *)
(***************************************************************************)
OfTransect(tr) == { k \in 1..Len(layer) : layer[k].TR_ID = << tr >> }

DistinctOffsets ==
    \A tr \in TransectIds : \A k, m \in OfTransect(tr) :
        layer[k].distance = layer[m].distance => k = m

\* The features of transect tr in ascending order of offset.
InOffsetOrder(tr) ==
    [r \in 1..Cardinality(OfTransect(tr)) |->
        layer[CHOOSE k \in OfTransect(tr) :
                  Cardinality({ m \in OfTransect(tr) :
                                  layer[m].distance < layer[k].distance })
                      = r - 1]]

\* The layer transect by transect, each in ascending order of offset: one
\* arrangement shared by all orders of arrival of the same samples.
Arranged ==
    LET first == CHOOSE tr \in TransectIds : \A o \in TransectIds : tr <= o
        second == CHOOSE tr \in TransectIds : tr # first
    IN  InOffsetOrder(first) \o InOffsetOrder(second)

BankSetOf(features) ==
    Range(_analyze_transects_for_bedrock(features, river_geom, cfg).bedrock_points)

C11_OrderAndOtherProfilesIrrelevant ==
    (pc = "done" /\ DistinctOffsets) =>
        /\ Range(bedrock_points) = BankSetOf(Arranged)
        /\ Range(bedrock_points) = BankSetOf(Reverse(layer))
        /\ \A tr \in TransectIds :
              { b \in Range(bedrock_points) : b.profile_id = tr }
                  = BankSetOf(InOffsetOrder(tr))

\* A finished run whose samples arrived interleaved between the transects
\* and out of offset order within one, with a bank point on each transect.
C11_Witness ==
    /\ pc = "done"
    /\ DistinctOffsets
    /\ \A tr \in TransectIds :
          \E b \in Range(bedrock_points) : b.profile_id = tr
    /\ \E k \in 1..(Len(layer) - 2) :
          /\ layer[k].TR_ID = layer[k + 2].TR_ID
          /\ layer[k].TR_ID # layer[k + 1].TR_ID
          /\ layer[k].distance > layer[k + 2].distance

TypeOK ==
    /\ pc \in {"sample", "group", "analyze", "done", "raised"}
    /\ Len(layer) <= MaxFeatures + MaxLen
    /\ pi \in 1..(Len(profiles) + 1)
    /\ Len(analysed) <= Len(profiles)

====
